---- MODULE Spec2Model ----
(***************************************************************************)
(* Model of the MCQ generation pipeline of MCQenerator/src/App.tsx:        *)
(* extractEntities, generateContextualQuestion,                            *)
(* generatePlausibleDistractors, shuffleArray, generateMockQuestions and   *)
(* the App component's handleGenerate.                                     *)
(* JavaScript strings are TLA+ strings; the string and regular-expression  *)
(* primitives the code uses are operators working character by character.  *)
(***************************************************************************)
EXTENDS Integers, Sequences, FiniteSets, TLC

VARIABLES
    pc,                  \* position of the modelled call
    text,                \* the text argument
    count,               \* generateMockQuestions: count
    difficulty,          \* the difficulty argument
    includeExplanations, \* settings.includeExplanations read by the loop
    entities,            \* result of extractEntities(text)
    slot,                \* generateMockQuestions: loop variable i
    questions,           \* generateMockQuestions: questions
    qtype,               \* generateContextualQuestion: type
    paragraphNumber,     \* generateContextualQuestion: paragraphNumber
    synth,               \* result of generateContextualQuestion
    correctAnswer,       \* generatePlausibleDistractors: correctAnswer
    distractors,         \* result of generatePlausibleDistractors
    array,               \* shuffleArray: array
    newArray,            \* shuffleArray: newArray
    idx,                 \* shuffleArray: loop variable i
    inputText,           \* App: inputText state
    settings,            \* App: settings state
    isLoading,           \* App: isLoading state
    generatedQuestions,  \* App: generatedQuestions state
    run                  \* the handleGenerate call suspended at its await, if any

\* the state of the App component
uiVars == <<inputText, settings, isLoading, generatedQuestions, run>>

\* the state of one call of the generation pipeline
coreVars == <<pc, text, count, difficulty, includeExplanations, entities, slot,
              questions, qtype, paragraphNumber, synth, correctAnswer,
              distractors, array, newArray, idx>>

vars == <<pc, text, count, difficulty, includeExplanations, entities, slot,
          questions, qtype, paragraphNumber, synth, correctAnswer,
          distractors, array, newArray, idx,
          inputText, settings, isLoading, generatedQuestions, run>>

(***************************************************************************)
(* Bounds of the model.                                                    *)
(***************************************************************************)
MaxChunks == 3      \* chunks per enumerated input text
MaxCount == 7       \* largest question count requested
MaxParagraph == 2   \* largest paragraph number handed to the synthesizer alone
MaxLen == 4         \* longest array handed to shuffleArray alone
MaxEntities == 2    \* entries per entity collection handed to the distractor generator alone

(***************************************************************************)
(* JavaScript string primitives.                                           *)
(***************************************************************************)
CharAt(s, p) == SubSeq(s, p, p)

LowerLetters == "abcdefghijklmnopqrstuvwxyz"
UpperLetters == "ABCDEFGHIJKLMNOPQRSTUVWXYZ"
LowerSet == {CharAt(LowerLetters, k) : k \in 1..26}
UpperSet == {CharAt(UpperLetters, k) : k \in 1..26}

\* \s of a regular expression, over the characters the inputs use
IsSpace(c) == c \in {" ", "\n", "\t"}

LowerOf ==
    [c \in UpperSet |->
        CharAt(LowerLetters, CHOOSE k \in 1..26 : CharAt(UpperLetters, k) = c)]

ToLowerChar(c) == IF c \in UpperSet THEN LowerOf[c] ELSE c

\* String.prototype.toLowerCase
RECURSIVE ToLowerCase(_)
ToLowerCase(s) ==
    IF s = "" THEN "" ELSE ToLowerChar(Head(s)) \o ToLowerCase(Tail(s))

\* String.prototype.includes
Includes(s, sub) ==
    \E p \in 1..(Len(s) - Len(sub) + 1) : SubSeq(s, p, p + Len(sub) - 1) = sub

\* the literal lit occurs in s at position p
StartsWithAt(s, p, lit) ==
    /\ p + Len(lit) - 1 <= Len(s)
    /\ SubSeq(s, p, p + Len(lit) - 1) = lit

\* the same under the regular expression's i flag (lit is lowercase)
StartsWithAtCI(s, p, lit) ==
    /\ p + Len(lit) - 1 <= Len(s)
    /\ ToLowerChar(CharAt(s, p)) = CharAt(lit, 1)
    /\ ToLowerCase(SubSeq(s, p, p + Len(lit) - 1)) = lit

\* String.prototype.trim
RECURSIVE TrimStart(_)
TrimStart(s) ==
    IF s # "" /\ IsSpace(Head(s)) THEN TrimStart(Tail(s)) ELSE s

RECURSIVE TrimEnd(_)
TrimEnd(s) ==
    IF s # "" /\ IsSpace(CharAt(s, Len(s)))
    THEN TrimEnd(SubSeq(s, 1, Len(s) - 1))
    ELSE s

Trim(s) == TrimEnd(TrimStart(s))

\* first position >= p of s whose character is not a sentence terminator
IsTerminator(c) == c \in {".", "!", "?"}

RECURSIVE SkipTerminators(_, _)
SkipTerminators(s, p) ==
    IF p <= Len(s) /\ IsTerminator(CharAt(s, p))
    THEN SkipTerminators(s, p + 1)
    ELSE p

\* s.split(/[.!?]+/): the pieces between the runs of terminators, with an
\* empty piece before a leading run and after a trailing one
RECURSIVE SplitFrom(_, _, _)
SplitFrom(s, p, start) ==
    IF p > Len(s) THEN <<SubSeq(s, start, Len(s))>>
    ELSE IF IsTerminator(CharAt(s, p))
         THEN LET q == SkipTerminators(s, p)
              IN  <<SubSeq(s, start, p - 1)>> \o SplitFrom(s, q, q)
         ELSE SplitFrom(s, p + 1, start)

SplitSentences(s) == SplitFrom(s, 1, 1)

\* s.split(/\n\n/)
RECURSIVE SplitParaFrom(_, _, _)
SplitParaFrom(s, p, start) ==
    IF p > Len(s) THEN <<SubSeq(s, start, Len(s))>>
    ELSE IF StartsWithAt(s, p, "\n\n")
         THEN <<SubSeq(s, start, p - 1)>> \o SplitParaFrom(s, p + 2, p + 2)
         ELSE SplitParaFrom(s, p + 1, start)

SplitParagraphs(s) == SplitParaFrom(s, 1, 1)

\* array.map(f) for f = trim, and array.filter(Boolean) on strings
RECURSIVE MapTrim(_)
MapTrim(ss) ==
    IF ss = <<>> THEN <<>> ELSE <<Trim(Head(ss))>> \o MapTrim(Tail(ss))

FilterNonEmpty(ss) == SelectSeq(ss, LAMBDA s : s # "")

\* [...new Set(array)]: first occurrences, in order
RECURSIVE Dedupe(_)
Dedupe(ss) ==
    IF ss = <<>> THEN <<>>
    ELSE LET init == Dedupe(SubSeq(ss, 1, Len(ss) - 1))
             last == ss[Len(ss)]
         IN  IF \E k \in 1..Len(init) : init[k] = last
             THEN init
             ELSE Append(init, last)

(***************************************************************************)
(* extractEntities                                                         *)
(***************************************************************************)
ProcessCues ==
    <<"process of ", "steps in ", "stages of ", "cycle of ", "mechanism of ">>
StructureCues ==
    <<"structure of ", "composed of ", "made up of ", "contains ", "within ">>
ConceptCues ==
    <<"concept of ", "principle of ", "theory of ", "law of ", "definition of ">>
ComparisonCues == <<"compared to", "differs from", "versus", "vs.", "unlike">>

\* the class [a-z\s] under the i flag
IsPhraseChar(c) == c \in LowerSet \/ c \in UpperSet \/ IsSpace(c)

\* last position of the run of phrase characters that starts at p
RECURSIVE PhraseEnd(_, _)
PhraseEnd(s, p) ==
    IF p + 1 <= Len(s) /\ IsPhraseChar(CharAt(s, p + 1))
    THEN PhraseEnd(s, p + 1)
    ELSE p

\* the cues of the alternation that match at p followed by a phrase character
CuesAt(s, p, cues) ==
    {k \in 1..Len(cues) :
        /\ StartsWithAtCI(s, p, cues[k])
        /\ p + Len(cues[k]) <= Len(s)
        /\ IsPhraseChar(CharAt(s, p + Len(cues[k])))}

\* Array.from(text.matchAll(/(?:cue|...)([a-z\s]+)/gi), m => m[1].trim())
RECURSIVE MatchAllFrom(_, _, _)
MatchAllFrom(s, p, cues) ==
    IF p > Len(s) THEN <<>>
    ELSE LET hits == CuesAt(s, p, cues)
         IN  IF hits = {} THEN MatchAllFrom(s, p + 1, cues)
             ELSE LET k == CHOOSE h \in hits : \A g \in hits : h <= g
                      b == p + Len(cues[k])
                      e == PhraseEnd(s, b)
                  IN  <<Trim(SubSeq(s, b, e))>> \o MatchAllFrom(s, e + 1, cues)

MatchAllPhrases(s, cues) == MatchAllFrom(s, 1, cues)

\* last position of the run of whitespace that starts at p
RECURSIVE SpaceEnd(_, _)
SpaceEnd(s, p) ==
    IF p + 1 <= Len(s) /\ IsSpace(CharAt(s, p + 1))
    THEN SpaceEnd(s, p + 1)
    ELSE p

\* the class [^,\.]
IsSpanChar(c) == c \notin {",", "."}

\* last position of the run of span characters that starts at p
RECURSIVE SpanEnd(_, _)
SpanEnd(s, p) ==
    IF p + 1 <= Len(s) /\ IsSpanChar(CharAt(s, p + 1))
    THEN SpanEnd(s, p + 1)
    ELSE p

\* group 1 of /(?:cue)\s+([^,\.]+)/i matched with the cue at p, as a one-element
\* sequence, or <<>> when the expression does not match there.  \s+ is greedy
\* and gives its last character back to the group when nothing else can
\* start the group.
SpanAt(s, p, cue) ==
    LET a == p + Len(cue)
    IN  IF ~(StartsWithAtCI(s, p, cue) /\ a <= Len(s) /\ IsSpace(CharAt(s, a)))
        THEN <<>>
        ELSE LET w == SpaceEnd(s, a)
             IN  IF w + 1 <= Len(s) /\ IsSpanChar(CharAt(s, w + 1))
                 THEN <<SubSeq(s, w + 1, SpanEnd(s, w + 1))>>
                 ELSE IF w > a THEN <<CharAt(s, w)>> ELSE <<>>

\* sentence.match(/(?:compared to|differs from|versus|vs\.|unlike)\s+([^,\.]+)/i):
\* group 1 of the leftmost match, or <<>> for null
RECURSIVE ComparisonMatchFrom(_, _)
ComparisonMatchFrom(s, p) ==
    IF p > Len(s) THEN <<>>
    ELSE LET hits == {k \in 1..Len(ComparisonCues) :
                         SpanAt(s, p, ComparisonCues[k]) # <<>>}
         IN  IF hits = {} THEN ComparisonMatchFrom(s, p + 1)
             ELSE SpanAt(s, p,
                      ComparisonCues[CHOOSE h \in hits : \A g \in hits : h <= g])

ComparisonMatch(s) == ComparisonMatchFrom(s, 1)

\* end of a match of /\s+(?:and|or)\s+/ that starts at p, or 0 when none does
JoinerEnd(s, p) ==
    IF ~(p <= Len(s) /\ IsSpace(CharAt(s, p))) THEN 0
    ELSE LET q == SpaceEnd(s, p) + 1
             r == IF StartsWithAt(s, q, "and") THEN q + 3
                  ELSE IF StartsWithAt(s, q, "or") THEN q + 2
                  ELSE 0
         IN  IF r # 0 /\ r <= Len(s) /\ IsSpace(CharAt(s, r))
             THEN SpaceEnd(s, r)
             ELSE 0

\* span.split(/\s+(?:and|or)\s+/)
RECURSIVE SplitTermsFrom(_, _, _)
SplitTermsFrom(s, p, start) ==
    IF p > Len(s) THEN <<SubSeq(s, start, Len(s))>>
    ELSE LET e == JoinerEnd(s, p)
         IN  IF e # 0
             THEN <<SubSeq(s, start, p - 1)>> \o SplitTermsFrom(s, e + 1, e + 1)
             ELSE SplitTermsFrom(s, p + 1, start)

SplitTerms(s) == SplitTermsFrom(s, 1, 1)

\* the body of sentences.forEach: what one sentence appends to relationships
SentenceRelationships(sentence) ==
    LET comparisonMatch == ComparisonMatch(sentence)
    IN  IF comparisonMatch = <<>> THEN <<>>
        ELSE LET terms == SplitTerms(comparisonMatch[1])
             IN  IF Len(terms) = 2
                 THEN << <<Trim(terms[1]), Trim(terms[2])>> >>
                 ELSE <<>>

RECURSIVE CollectRelationships(_)
CollectRelationships(sentences) ==
    IF sentences = <<>> THEN <<>>
    ELSE SentenceRelationships(Head(sentences))
             \o CollectRelationships(Tail(sentences))

\* the sentences of extractEntities: split, trimmed, empty ones dropped
Sentences(t) == FilterNonEmpty(MapTrim(SplitSentences(t)))

extractEntities(t) ==
    [processes     |-> Dedupe(MatchAllPhrases(t, ProcessCues)),
     structures    |-> Dedupe(MatchAllPhrases(t, StructureCues)),
     concepts      |-> Dedupe(MatchAllPhrases(t, ConceptCues)),
     relationships |-> CollectRelationships(Sentences(t))]

(***************************************************************************)
(* JavaScript values that may be undefined: <<>> is undefined, <<v>> is v.  *)
(***************************************************************************)
Undefined == <<>>

\* array[i] for a 0-based index i
ElementAt(arr, i) == IF i + 1 <= Len(arr) THEN <<arr[i + 1]>> ELSE Undefined

\* the string a template literal or String.prototype.includes makes of a value
ToStr(v) == IF v = Undefined THEN "undefined" ELSE v[1]

\* the values Math.floor(Math.random() * n) can take
RandomIndices(n) == IF n <= 0 THEN {0} ELSE 0..(n - 1)

(***************************************************************************)
(* questionPatterns                                                        *)
(***************************************************************************)
QuestionTypes == <<"definition", "cause-effect", "comparison", "sequencing", "scenario">>
Difficulties == {"easy", "medium", "hard"}

CognitiveLevel(type) ==
    CASE type = "definition"   -> "remember"
      [] type = "cause-effect" -> "understand"
      [] type = "comparison"   -> "analyze"
      [] type = "sequencing"   -> "understand"
      [] type = "scenario"     -> "apply"

(***************************************************************************)
(* generateContextualQuestion                                              *)
(***************************************************************************)
CauseCues == <<"causes", "results in", "leads to", "produces", "triggers">>

\* mutant: the paragraph index used without the - 1
SelectParagraphOffByOne(t, n) ==
    LET paragraphs == SplitParagraphs(t)
    IN  IF n + 1 <= Len(paragraphs) /\ paragraphs[n + 1] # ""
        THEN paragraphs[n + 1]
        ELSE t

\* text.split(/\n\n/)[paragraphNumber - 1] || text
SelectParagraph(t, n) ==
    LET paragraphs == SplitParagraphs(t)
    IN  IF n >= 1 /\ n <= Len(paragraphs) /\ paragraphs[n] # ""
        THEN paragraphs[n]
        ELSE t

\* sentences.find(s => s.toLowerCase().includes(a) && s.toLowerCase().includes(b)) || ''
FindIncluding(sentences, a, b) ==
    LET hits == {k \in 1..Len(sentences) :
                    /\ Includes(ToLowerCase(sentences[k]), a)
                    /\ Includes(ToLowerCase(sentences[k]), b)}
    IN  IF hits = {} THEN ""
        ELSE sentences[CHOOSE h \in hits : \A g \in hits : h <= g]

\* a causal verb of the pattern matches in s at position p (i flag)
CauseAt(s, p) == \E k \in 1..Len(CauseCues) : StartsWithAtCI(s, p, CauseCues[k])

\* /(?:causes|results in|leads to|produces|triggers)/i.test(s)
HasCause(s) == \E p \in 1..Len(s) : CauseAt(s, p)

\* sentences.find(s => /causes|.../i.test(s)) || ''
FindCause(sentences) ==
    LET hits == {k \in 1..Len(sentences) : HasCause(sentences[k])}
    IN  IF hits = {} THEN ""
        ELSE sentences[CHOOSE h \in hits : \A g \in hits : h <= g]

\* s.split(/causes|results in|leads to|produces|triggers/i)[0]
BeforeCause(s) ==
    LET hits == {p \in 1..Len(s) : CauseAt(s, p)}
    IN  IF hits = {} THEN s
        ELSE SubSeq(s, 1, (CHOOSE h \in hits : \A g \in hits : h <= g) - 1)

\* the size of the collection a type draws from at random (0: no draw)
DrawSize(type, ents) ==
    CASE type = "definition" -> Len(ents.concepts)
      [] type = "scenario"   -> Len(ents.concepts)
      [] type = "sequencing" -> Len(ents.processes)
      [] type = "comparison" -> Len(ents.relationships)
      [] OTHER               -> 0

\* r is the value of Math.floor(Math.random() * collection.length)
generateContextualQuestion(type, ents, t, n, r) ==
    LET paragraph == SelectParagraph(t, n)
        sentences == SplitSentences(paragraph)
        reference == "Paragraph " \o ToString(n)
    IN  CASE type = "definition" ->
                LET concept == ToStr(ElementAt(ents.concepts, r))
                IN  [question        |-> "What is " \o concept \o "?",
                     correctAnswer   |-> Trim(FindIncluding(sentences, concept, concept)),
                     sourceReference |-> reference]
          [] type = "comparison" ->
                LET pair  == ElementAt(ents.relationships, r)
                    term1 == IF pair = Undefined THEN "undefined" ELSE pair[1][1]
                    term2 == IF pair = Undefined THEN "undefined" ELSE pair[1][2]
                IN  [question        |-> "How does " \o term1 \o " differ from " \o term2 \o "?",
                     correctAnswer   |-> Trim(FindIncluding(sentences, term1, term2)),
                     sourceReference |-> reference]
          [] type = "sequencing" ->
                LET process == ToStr(ElementAt(ents.processes, r))
                IN  [question        |-> "What is the correct sequence in " \o process \o "?",
                     correctAnswer   |-> Trim(FindIncluding(sentences, process, process)),
                     sourceReference |-> reference]
          [] type = "cause-effect" ->
                LET causeSentence == FindCause(sentences)
                IN  [question        |-> "What is the effect of "
                                             \o Trim(BeforeCause(causeSentence)) \o "?",
                     correctAnswer   |-> Trim(causeSentence),
                     sourceReference |-> reference]
          [] type = "scenario" ->
                LET concept == ToStr(ElementAt(ents.concepts, r))
                IN  [question        |-> "Which scenario best demonstrates " \o concept \o "?",
                     correctAnswer   |-> Trim(FindIncluding(sentences, concept, concept)),
                     sourceReference |-> reference]
          [] OTHER ->
                [question |-> "", correctAnswer |-> "", sourceReference |-> ""]

(***************************************************************************)
(* generatePlausibleDistractors                                            *)
(***************************************************************************)
difficultyDistractors(d) ==
    CASE d = "easy"   -> <<"The process occurs in reverse",
                           "No interaction takes place",
                           "The structure is inactive">>
      [] d = "medium" -> <<"The relationship is indirect",
                           "Multiple steps are skipped",
                           "The effect is temporary">>
      [] d = "hard"   -> <<"The mechanism is substrate-independent",
                           "Regulation occurs at a different level",
                           "The pathway is non-linear">>

\* the three pushes guarded by the collections being non-empty
EntityDistractors(ents) ==
    (IF Len(ents.relationships) > 0
     THEN <<ents.relationships[1][2] \o " is responsible for "
                \o ents.relationships[1][1] \o "'s function">>
     ELSE <<>>)
    \o (IF Len(ents.structures) > 0
        THEN <<ents.structures[1] \o " is involved in a different process">>
        ELSE <<>>)
    \o (IF Len(ents.concepts) > 0
        THEN <<ents.concepts[1] \o " operates independently of other processes">>
        ELSE <<>>)

\* mutant: the fill always takes the first entry of the table
RECURSIVE FillDistractorsFirstEntry(_, _)
FillDistractorsFirstEntry(ds, d) ==
    IF Len(ds) < 3
    THEN FillDistractorsFirstEntry(Append(ds, difficultyDistractors(d)[1]), d)
    ELSE ds

\* while (distractors.length < 3) push(difficultyDistractors[difficulty][distractors.length])
RECURSIVE FillDistractors(_, _)
FillDistractors(ds, d) ==
    IF Len(ds) < 3
    THEN FillDistractors(Append(ds, difficultyDistractors(d)[Len(ds) + 1]), d)
    ELSE ds

generatePlausibleDistractors(answer, ents, d) ==
    FillDistractors(EntityDistractors(ents), d)

(***************************************************************************)
(* shuffleArray                                                            *)
(***************************************************************************)
\* [newArray[i], newArray[j]] = [newArray[j], newArray[i]] for 0-based i, j
Swap(a, i, j) == [a EXCEPT ![i + 1] = a[j + 1], ![j + 1] = a[i + 1]]

\* mutant: j drawn below i, Math.floor(Math.random() * i)
SwapIndicesBelow(i) == RandomIndices(i)

\* the values j takes in the iteration with loop variable i
SwapIndices(i) == RandomIndices(i + 1)

\* the arrays the loop can leave in newArray when it runs from i down to 1
RECURSIVE ShuffleFrom(_, _)
ShuffleFrom(a, i) ==
    IF i > 0
    THEN UNION {ShuffleFrom(Swap(a, i, j), i - 1) : j \in SwapIndices(i)}
    ELSE {a}

\* the arrays shuffleArray(a) can return
shuffleArray(a) == ShuffleFrom(a, Len(a) - 1)

(***************************************************************************)
(* generateMockQuestions                                                   *)
(***************************************************************************)
\* String.fromCharCode(code) for the codes of a..z
FromCharCode(code) == CharAt(LowerLetters, code - 96)

\* questionTypes[i % questionTypes.length]
SlotType(i) == QuestionTypes[(i % Len(QuestionTypes)) + 1]

\* mutant: the paragraph number without the + 1
SlotParagraphZeroBased(i) == i \div Len(QuestionTypes)

\* Math.floor(i / questionTypes.length) + 1
SlotParagraph(i) == (i \div Len(QuestionTypes)) + 1

\* what generateContextualQuestion returns for slot i when the draw gives r
SlotSynthesis(t, ents, i, r) ==
    generateContextualQuestion(SlotType(i), ents, t, SlotParagraph(i), r)

\* if (!question || !correctAnswer) continue
IsSkipped(s) == s.question = "" \/ s.correctAnswer = ""

\* mutant: the distractor options copied from the correct one, flag included
RECURSIVE DistractorOptionsFlagged(_, _, _)
DistractorOptionsFlagged(ds, i, j) ==
    IF j >= Len(ds) THEN <<>>
    ELSE <<[id        |-> "q" \o ToString(i + 1) \o "_" \o FromCharCode(98 + j),
            text      |-> ds[j + 1],
            isCorrect |-> TRUE]>> \o DistractorOptionsFlagged(ds, i, j + 1)

\* distractors.map((d, j) => ({id, text: d, isCorrect: false})), j from 0
RECURSIVE DistractorOptions(_, _, _)
DistractorOptions(ds, i, j) ==
    IF j >= Len(ds) THEN <<>>
    ELSE <<[id        |-> "q" \o ToString(i + 1) \o "_" \o FromCharCode(98 + j),
            text      |-> ds[j + 1],
            isCorrect |-> FALSE]>> \o DistractorOptions(ds, i, j + 1)

\* the array handed to shuffleArray for slot i
SlotOptions(s, ents, d, i) ==
    <<[id |-> "q" \o ToString(i + 1) \o "_a", text |-> s.correctAnswer, isCorrect |-> TRUE]>>
        \o DistractorOptions(generatePlausibleDistractors(s.correctAnswer, ents, d), i, 0)

\* the record pushed for slot i, with the shuffled options
SlotQuestion(s, options, i, incl) ==
    [id              |-> "q" \o ToString(i + 1),
     question        |-> s.question,
     options         |-> options,
     type            |-> SlotType(i),
     cognitiveLevel  |-> CognitiveLevel(SlotType(i)),
     explanation     |-> IF incl
                         THEN <<"As stated in " \o s.sourceReference \o ": \""
                                    \o s.correctAnswer \o "\"">>
                         ELSE Undefined,
     sourceReference |-> s.sourceReference]

\* mutant: the record is put in front of the list
PushQuestionFront(qs, q) == <<q>> \o qs

\* questions.push(q)
PushQuestion(qs, q) == Append(qs, q)

(***************************************************************************)
(* Inputs.                                                                 *)
(***************************************************************************)
RECURSIVE Concat(_)
Concat(ss) == IF ss = <<>> THEN "" ELSE Head(ss) \o Concat(Tail(ss))

\* the sequences of at most n elements of S
SeqsUpTo(S, n) == UNION {[1..k -> S] : k \in 0..n}

\* the texts made of at most n chunks of V
ChunkTexts(V, n) == {Concat(cs) : cs \in SeqsUpTo(V, n)}

\* chunks of the texts handed to extractEntities alone
ExtractChunks ==
    {"compared to ", "differs from ", "versus ", "vs. ", "unlike ",
     "gas and oil", ", ", ". ", " ",
     "law of ", "within ", "Steps in "}

\* chunks of the texts handed to generateContextualQuestion alone
SynthChunks ==
    {"law of ", "steps in ", "unlike ", "gas and oil", "Ice",
     ". ", "\n\n", " causes ", "undefined"}

\* texts handed to generateMockQuestions
GenTexts ==
    {"",
     "Hello world. This is plain text with no markers.",
     "law of gas within ice.\n\nno cue.",
     "no cue.\n\nlaw of gas. Law of Ice",
     "heat causes ice.",
     "oil versus gas and ice.\n\nno cue.",
     "steps in mixing.\n\nno cue.",
     "no cue.\n\nit is undefined."}

NoEntities == [processes |-> <<>>, structures |-> <<>>, concepts |-> <<>>,
               relationships |-> <<>>]
NoSynth == [question |-> "", correctAnswer |-> "", sourceReference |-> ""]

\* entity sets handed to generatePlausibleDistractors alone
DistractorPhrases == {"", "cell"}
EntitySets ==
    [processes     : {<<>>},
     structures    : SeqsUpTo(DistractorPhrases, MaxEntities),
     concepts      : SeqsUpTo(DistractorPhrases, MaxEntities),
     relationships : SeqsUpTo(DistractorPhrases \X DistractorPhrases, MaxEntities)]

\* arrays handed to shuffleArray alone
ArrayElements == {"a", "b", "c"}

\* the App component as useState initialises it, no call in flight
AppInit ==
    /\ inputText = ""
    /\ settings = [questionCount |-> 10, difficulty |-> "medium",
                   includeExplanations |-> TRUE]
    /\ isLoading = FALSE
    /\ generatedQuestions = <<>>
    /\ run = Undefined

(***************************************************************************)
(* Spec: one call of generateMockQuestions(text, count, difficulty).       *)
(***************************************************************************)
Init ==
    /\ pc = "call"
    /\ AppInit
    /\ text \in GenTexts
    /\ count \in 1..MaxCount
    /\ difficulty \in Difficulties
    /\ includeExplanations \in BOOLEAN
    /\ entities = NoEntities
    /\ slot = 0
    /\ questions = <<>>
    /\ qtype = ""
    /\ paragraphNumber = 0
    /\ synth = NoSynth
    /\ correctAnswer = ""
    /\ distractors = <<>>
    /\ array = <<>>
    /\ newArray = <<>>
    /\ idx = 0

\* where the loop stands once slot i has been handled: the loop test, then
\* either the next iteration or return questions
AfterSlot(i) == IF i + 1 < count THEN "loop" ELSE "done"

\* const entities = extractEntities(text); const questions = []; i = 0
Begin ==
    /\ pc = "call"
    /\ entities' = extractEntities(text)
    /\ questions' = <<>>
    /\ slot' = 0
    /\ pc' = AfterSlot(-1)
    /\ UNCHANGED uiVars
    /\ UNCHANGED <<text, count, difficulty, includeExplanations, qtype,
                   paragraphNumber, synth, correctAnswer, distractors, array,
                   newArray, idx>>

\* an iteration that ends in continue
SkipSlot ==
    /\ pc = "loop"
    /\ slot < count
    /\ \E r \in RandomIndices(DrawSize(SlotType(slot), entities)) :
           IsSkipped(SlotSynthesis(text, entities, slot, r))
    /\ slot' = slot + 1
    /\ pc' = AfterSlot(slot)
    /\ UNCHANGED uiVars
    /\ UNCHANGED <<text, count, difficulty, includeExplanations, entities,
                   questions, qtype, paragraphNumber, synth, correctAnswer,
                   distractors, array, newArray, idx>>

\* an iteration that ends in questions.push
EmitSlot ==
    /\ pc = "loop"
    /\ slot < count
    /\ \E r \in RandomIndices(DrawSize(SlotType(slot), entities)) :
           LET s == SlotSynthesis(text, entities, slot, r)
           IN  /\ ~IsSkipped(s)
               /\ \E options \in shuffleArray(SlotOptions(s, entities, difficulty, slot)) :
                      questions' = PushQuestion(questions,
                          SlotQuestion(s, options, slot, includeExplanations))
    /\ slot' = slot + 1
    /\ pc' = AfterSlot(slot)
    /\ UNCHANGED uiVars
    /\ UNCHANGED <<text, count, difficulty, includeExplanations, entities,
                   qtype, paragraphNumber, synth, correctAnswer, distractors,
                   array, newArray, idx>>

Next == Begin \/ SkipSlot \/ EmitSlot

Spec == Init /\ [][Next]_vars

(***************************************************************************)
(* SpecExtract: one call of extractEntities(text).                         *)
(***************************************************************************)
InitExtract ==
    /\ pc = "call"
    /\ AppInit
    /\ text \in ChunkTexts(ExtractChunks, MaxChunks)
    /\ count = 0
    /\ difficulty = "medium"
    /\ includeExplanations = TRUE
    /\ entities = NoEntities
    /\ slot = 0
    /\ questions = <<>>
    /\ qtype = ""
    /\ paragraphNumber = 0
    /\ synth = NoSynth
    /\ correctAnswer = ""
    /\ distractors = <<>>
    /\ array = <<>>
    /\ newArray = <<>>
    /\ idx = 0

Extract ==
    /\ pc = "call"
    /\ entities' = extractEntities(text)
    /\ pc' = "done"
    /\ UNCHANGED uiVars
    /\ UNCHANGED <<text, count, difficulty, includeExplanations, slot, questions,
                   qtype, paragraphNumber, synth, correctAnswer, distractors,
                   array, newArray, idx>>

NextExtract == Extract

SpecExtract == InitExtract /\ [][NextExtract]_vars

(***************************************************************************)
(* SpecSynth: one call of generateContextualQuestion(type, entities, text, *)
(* paragraphNumber) with the entities of the same text.                    *)
(***************************************************************************)
InitSynth ==
    /\ pc = "call"
    /\ AppInit
    /\ text \in ChunkTexts(SynthChunks, MaxChunks)
    /\ count = 0
    /\ difficulty = "medium"
    /\ includeExplanations = TRUE
    /\ entities = extractEntities(text)
    /\ slot = 0
    /\ questions = <<>>
    /\ qtype \in {QuestionTypes[k] : k \in 1..Len(QuestionTypes)}
    /\ paragraphNumber \in 1..MaxParagraph
    /\ synth = NoSynth
    /\ correctAnswer = ""
    /\ distractors = <<>>
    /\ array = <<>>
    /\ newArray = <<>>
    /\ idx = 0

Synthesize ==
    /\ pc = "call"
    /\ \E r \in RandomIndices(DrawSize(qtype, entities)) :
           synth' = generateContextualQuestion(qtype, entities, text, paragraphNumber, r)
    /\ pc' = "done"
    /\ UNCHANGED uiVars
    /\ UNCHANGED <<text, count, difficulty, includeExplanations, entities, slot,
                   questions, qtype, paragraphNumber, correctAnswer, distractors,
                   array, newArray, idx>>

NextSynth == Synthesize

SpecSynth == InitSynth /\ [][NextSynth]_vars

(***************************************************************************)
(* SpecDistract: one call of generatePlausibleDistractors.                 *)
(***************************************************************************)
InitDistract ==
    /\ pc = "call"
    /\ AppInit
    /\ text = ""
    /\ count = 0
    /\ difficulty \in Difficulties
    /\ includeExplanations = TRUE
    /\ entities \in EntitySets
    /\ slot = 0
    /\ questions = <<>>
    /\ qtype = ""
    /\ paragraphNumber = 0
    /\ synth = NoSynth
    /\ correctAnswer \in {"cell", "The effect is temporary"}
    /\ distractors = <<>>
    /\ array = <<>>
    /\ newArray = <<>>
    /\ idx = 0

Distract ==
    /\ pc = "call"
    /\ distractors' = generatePlausibleDistractors(correctAnswer, entities, difficulty)
    /\ pc' = "done"
    /\ UNCHANGED uiVars
    /\ UNCHANGED <<text, count, difficulty, includeExplanations, entities, slot,
                   questions, qtype, paragraphNumber, synth, correctAnswer,
                   array, newArray, idx>>

NextDistract == Distract

SpecDistract == InitDistract /\ [][NextDistract]_vars

(***************************************************************************)
(* SpecShuffle: one call of shuffleArray(array), one loop iteration a step.*)
(***************************************************************************)
InitShuffle ==
    /\ pc = "call"
    /\ AppInit
    /\ text = ""
    /\ count = 0
    /\ difficulty = "medium"
    /\ includeExplanations = TRUE
    /\ entities = NoEntities
    /\ slot = 0
    /\ questions = <<>>
    /\ qtype = ""
    /\ paragraphNumber = 0
    /\ synth = NoSynth
    /\ correctAnswer = ""
    /\ distractors = <<>>
    /\ array \in SeqsUpTo(ArrayElements, MaxLen)
    /\ newArray = <<>>
    /\ idx = 0

\* const newArray = [...array] allocates a new array: writes to newArray
\* do not reach array
SpreadCopies == TRUE

\* const newArray = [...array]; i = newArray.length - 1
CopyArray ==
    /\ pc = "call"
    /\ newArray' = array
    /\ array' = array
    /\ idx' = Len(array) - 1
    /\ pc' = "loop"
    /\ UNCHANGED uiVars
    /\ UNCHANGED <<text, count, difficulty, includeExplanations, entities, slot,
                   questions, qtype, paragraphNumber, synth, correctAnswer,
                   distractors>>

\* one iteration: j = Math.floor(Math.random() * (i + 1)); swap; i--
SwapStep ==
    /\ pc = "loop"
    /\ idx > 0
    /\ \E j \in SwapIndices(idx) : newArray' = Swap(newArray, idx, j)
    /\ array' = IF SpreadCopies THEN array ELSE newArray'
    /\ idx' = idx - 1
    /\ UNCHANGED uiVars
    /\ UNCHANGED <<pc, text, count, difficulty, includeExplanations, entities,
                   slot, questions, qtype, paragraphNumber, synth, correctAnswer,
                   distractors>>

\* return newArray
ReturnShuffle ==
    /\ pc = "loop"
    /\ idx <= 0
    /\ pc' = "done"
    /\ UNCHANGED uiVars
    /\ UNCHANGED <<text, count, difficulty, includeExplanations, entities, slot,
                   questions, qtype, paragraphNumber, synth, correctAnswer,
                   distractors, array, newArray, idx>>

NextShuffle == CopyArray \/ SwapStep \/ ReturnShuffle

SpecShuffle == InitShuffle /\ [][NextShuffle]_vars

(***************************************************************************)
(* SpecApp: the App component around handleGenerate.  The events are the   *)
(* edits of the text and of the settings, the click on the Generate button *)
(* and the continuation of handleGenerate after its 1.5 s timer.           *)
(***************************************************************************)
\* the lists a call of generateMockQuestions(t, c, d) can return from slot i
\* on, one for every outcome of the random draws and of the shuffles
RECURSIVE MockQuestionsFrom(_, _, _, _, _, _)
MockQuestionsFrom(t, ents, c, d, incl, i) ==
    IF i >= c THEN {<<>>}
    ELSE LET rest == MockQuestionsFrom(t, ents, c, d, incl, i + 1)
         IN  UNION {
                 LET s == SlotSynthesis(t, ents, i, r)
                 IN  IF IsSkipped(s) THEN rest
                     ELSE {<<SlotQuestion(s, options, i, incl)>> \o tail :
                              options \in shuffleArray(SlotOptions(s, ents, d, i)),
                              tail \in rest}
                 : r \in RandomIndices(DrawSize(SlotType(i), ents))}

\* generateMockQuestions(text, count, difficulty) with settings.includeExplanations
generateMockQuestions(t, c, d, incl) ==
    MockQuestionsFrom(t, extractEntities(t), c, d, incl, 0)

\* the constants inputText and settings of the render whose handleGenerate
\* was attached to the button when it was clicked
RenderClosure == [inputText |-> inputText, settings |-> settings]

\* mutant: the continuation reads the state of the latest render
ContinuationReadsLatest(r) == RenderClosure

\* what the continuation of a suspended call reads as inputText and settings:
\* the constants of its own closure
ContinuationReads(r) == r[1]

\* texts the user can enter
AppTexts == {"", " \n", "no cue.\n\nheat causes ice.", "steps in ice.\n\nno cue."}

\* the options of the question count select offered to the user
AppCounts == {5, 10}

\* generateMockQuestions tabulated over the arguments the App can pass to it
MockQuestionsOf ==
    [t \in AppTexts |-> [c \in AppCounts |-> [d \in Difficulties |->
        [incl \in BOOLEAN |-> generateMockQuestions(t, c, d, incl)]]]]

SpecAppIdleCore ==
    /\ pc = "idle"
    /\ text = ""
    /\ count = 0
    /\ difficulty = "medium"
    /\ includeExplanations = TRUE
    /\ entities = NoEntities
    /\ slot = 0
    /\ questions = <<>>
    /\ qtype = ""
    /\ paragraphNumber = 0
    /\ synth = NoSynth
    /\ correctAnswer = ""
    /\ distractors = <<>>
    /\ array = <<>>
    /\ newArray = <<>>
    /\ idx = 0

InitApp ==
    /\ SpecAppIdleCore
    /\ AppInit

\* onChange of the text area, of the URL field, or a finished file upload
SetInputText ==
    /\ \E t \in AppTexts : inputText' = t
    /\ UNCHANGED <<settings, isLoading, generatedQuestions, run>>
    /\ UNCHANGED coreVars

\* onChange of the question count and of the difficulty select:
\* setSettings({...settings, field})
SetSettings ==
    /\ \/ \E n \in AppCounts : settings' = [settings EXCEPT !.questionCount = n]
       \/ \E d \in Difficulties : settings' = [settings EXCEPT !.difficulty = d]
    /\ UNCHANGED <<inputText, isLoading, generatedQuestions, run>>
    /\ UNCHANGED coreVars

\* a click on the Generate button (disabled while isLoading): handleGenerate
\* up to its return or its await
handleGenerate ==
    /\ ~isLoading
    /\ IF Trim(inputText) = ""
       THEN UNCHANGED <<isLoading, run>>       \* alert(...); return
       ELSE /\ isLoading' = TRUE
            /\ run' = <<RenderClosure>>
    /\ UNCHANGED <<inputText, settings, generatedQuestions>>
    /\ UNCHANGED coreVars

\* the timer fired: generateMockQuestions returns, setGeneratedQuestions,
\* then the finally block
ResumeGenerate ==
    /\ run # Undefined
    /\ isLoading' = FALSE
    /\ run' = Undefined
    /\ LET seen == ContinuationReads(run)
       IN  \E result \in MockQuestionsOf[seen.inputText][seen.settings.questionCount]
                                         [seen.settings.difficulty]
                                         [seen.settings.includeExplanations] :
               generatedQuestions' = result
    /\ UNCHANGED <<inputText, settings>>
    /\ UNCHANGED coreVars

\* the timer fired and an exception reached the catch block: alert, then the
\* finally block
ResumeThrows ==
    /\ run # Undefined
    /\ isLoading' = FALSE
    /\ run' = Undefined
    /\ UNCHANGED <<inputText, settings, generatedQuestions>>
    /\ UNCHANGED coreVars

NextApp == SetInputText \/ SetSettings \/ handleGenerate \/ ResumeGenerate \/ ResumeThrows

SpecApp == InitApp /\ [][NextApp]_vars

\* a timer that was set fires: the continuation of a suspended call runs
SpecAppFair == SpecApp /\ WF_vars(ResumeGenerate \/ ResumeThrows)

(***************************************************************************)
(* Properties of generateMockQuestions (Spec).                             *)
(***************************************************************************)
\* the slots i whose question id q(i+1) is the id of q
QuestionSlots(q) == {i \in 0..(count - 1) : q.id = "q" \o ToString(i + 1)}

\* the positions of the options of q flagged correct
CorrectOptions(q) == {m \in 1..Len(q.options) : q.options[m].isCorrect}

\* the results the synthesizer can return for slot i of the run
SlotResults(i) ==
    {SlotSynthesis(text, entities, i, r) :
        r \in RandomIndices(DrawSize(SlotType(i), entities))}

\* C1: every question of the list returned by generateMockQuestions has
\* exactly 4 options after shuffling, exactly one of them is flagged
\* correct, and the text of that option is the correct answer the
\* synthesizer returned for the question's slot.
C1_OptionInvariant ==
    pc = "done" =>
        \A k \in 1..Len(questions) :
            LET q == questions[k]
            IN  /\ Len(q.options) = 4
                /\ Cardinality(CorrectOptions(q)) = 1
                /\ \E i \in QuestionSlots(q) : \E s \in SlotResults(i) :
                       /\ s.question = q.question
                       /\ \A m \in CorrectOptions(q) :
                              q.options[m].text = s.correctAnswer

\* C1 witness: a returned question whose correct option was moved from the
\* first position by the shuffle.
C1_Witness ==
    /\ pc = "done"
    /\ Len(questions) >= 1
    /\ ~questions[1].options[1].isCorrect
    /\ questions[1].options[3].isCorrect

\* C6: every question in the list has, for the slot i of its id q(i+1),
\* the type L[i mod 5] of the list definition, cause-effect, comparison,
\* sequencing, scenario and the source reference "Paragraph floor(i/5)+1".
C6_TypeList == <<"definition", "cause-effect", "comparison", "sequencing", "scenario">>

C6_RoundRobin ==
    \A k \in 1..Len(questions) :
        LET q == questions[k]
        IN  /\ QuestionSlots(q) # {}
            /\ \A i \in QuestionSlots(q) :
                   /\ q.type = C6_TypeList[(i % 5) + 1]
                   /\ q.sourceReference = "Paragraph " \o ToString((i \div 5) + 1)

\* C6 witness: a returned list holding the question of slot 5, the first
\* slot of the second cycle, typed definition and referring to paragraph 2.
C6_Witness ==
    /\ pc = "done"
    /\ \E k \in 1..Len(questions) :
           /\ questions[k].id = "q6"
           /\ questions[k].type = "definition"
           /\ questions[k].sourceReference = "Paragraph 2"

\* the option ids of the whole list
AllOptionIds ==
    {questions[k].options[m].id :
        k \in 1..Len(questions), m \in 1..4}

\* C7: the list holds at most count questions, in increasing order of slot;
\* question ids are pairwise distinct and option ids are pairwise distinct
\* over the whole list; no entry has a blank question or a blank correct
\* answer; and every loop iteration either appends exactly the question of
\* its slot, which it can only do when the synthesizer can return a result
\* that is not blank, or leaves the list as it is, which it can only do when
\* the synthesizer can return a blank result.
C7_ListShape ==
    /\ Len(questions) <= count
    /\ \A k \in 1..Len(questions) : Cardinality(QuestionSlots(questions[k])) = 1
    /\ \A k, l \in 1..Len(questions) :
           k < l => \A i \in QuestionSlots(questions[k]) :
                        \A j \in QuestionSlots(questions[l]) : i < j
    /\ \A k \in 1..Len(questions) : Len(questions[k].options) = 4
    /\ Cardinality(AllOptionIds) = 4 * Len(questions)
    /\ \A k \in 1..Len(questions) :
           /\ questions[k].question # ""
           /\ \A m \in CorrectOptions(questions[k]) :
                  questions[k].options[m].text # ""

C7_Iteration ==
    slot' = slot + 1 =>
        LET results == SlotResults(slot)
            blank   == {s \in results : s.question = "" \/ s.correctAnswer = ""}
        IN  IF questions' = questions
            THEN blank # {}
            ELSE /\ blank # results
                 /\ Len(questions') = Len(questions) + 1
                 /\ SubSeq(questions', 1, Len(questions)) = questions
                 /\ questions'[Len(questions')].id = "q" \o ToString(slot + 1)

C7_SurvivorsInOrder == []C7_ListShape /\ [][C7_Iteration]_vars

\* C7 witness: a returned list of two questions from a run of more slots,
\* the second from a later slot than the first.
C7_Witness ==
    /\ pc = "done"
    /\ Len(questions) = 2
    /\ count > 2
    /\ questions[1].id = "q1"
    /\ questions[2].id = "q5"

\* the paragraph numbers n with reference "Paragraph n"
ReferencedParagraphs(q) ==
    {n \in 1..count : q.sourceReference = "Paragraph " \o ToString(n)}

\* the trimmed sentences of a piece of text
TrimmedSentences(t) ==
    LET sentences == SplitSentences(t)
    IN  {Trim(sentences[k]) : k \in 1..Len(sentences)}

\* C5 (as claimed): the source reference of every returned question names
\* an existing paragraph of the text and the correct answer is a sentence of
\* that paragraph.
C5_ReferenceExists ==
    pc = "done" =>
        \A k \in 1..Len(questions) :
            LET q == questions[k]
                paragraphs == SplitParagraphs(text)
            IN  \E n \in ReferencedParagraphs(q) :
                    /\ n <= Len(paragraphs)
                    /\ \A m \in CorrectOptions(q) :
                           q.options[m].text \in TrimmedSentences(paragraphs[n])

\* C5 (amended): the source reference of every returned question is
\* "Paragraph n" for a 1-based n; when the text has an n-th paragraph and it
\* is not empty the correct answer is a trimmed sentence of that paragraph,
\* and otherwise it is a trimmed sentence of the whole text.
C5_ReferenceOrWholeText ==
    pc = "done" =>
        \A k \in 1..Len(questions) :
            LET q == questions[k]
                paragraphs == SplitParagraphs(text)
            IN  \E n \in ReferencedParagraphs(q) :
                    \A m \in CorrectOptions(q) :
                        IF n <= Len(paragraphs) /\ paragraphs[n] # ""
                        THEN q.options[m].text \in TrimmedSentences(paragraphs[n])
                        ELSE q.options[m].text \in TrimmedSentences(text)

\* C5 witness: a returned list whose last question refers to paragraph 2
\* of a text that has a single paragraph, its correct answer being a
\* sentence of the whole text.
C5_Witness ==
    /\ pc = "done"
    /\ Len(questions) >= 1
    /\ questions[Len(questions)].sourceReference = "Paragraph 2"
    /\ Len(SplitParagraphs(text)) = 1
    /\ \E m \in CorrectOptions(questions[Len(questions)]) :
           questions[Len(questions)].options[m].text \in TrimmedSentences(text)

\* C4: a text without cue phrases (extraction finds nothing and no sentence
\* has a causal verb) makes generateMockQuestions return an empty list.
C4_NoCuesNoQuestions ==
    (pc = "done" /\ entities = NoEntities /\ ~HasCause(text)) => questions = <<>>

(***************************************************************************)
(* Properties of generatePlausibleDistractors (SpecDistract).              *)
(***************************************************************************)
\* C2: generatePlausibleDistractors returns exactly 3 strings, pairwise
\* distinct, whatever collections of the entity set are empty.
C2_ThreeDistinct ==
    pc = "done" =>
        /\ Len(distractors) = 3
        /\ \A a, b \in 1..Len(distractors) : a < b => distractors[a] # distractors[b]

\* C2 witness: a call returned with relationships, structures and concepts
\* all empty, so that all three strings come from the generic table.
C2_Witness ==
    /\ pc = "done"
    /\ entities.relationships = <<>>
    /\ entities.structures = <<>>
    /\ entities.concepts = <<>>
    /\ distractors = <<"The mechanism is substrate-independent",
                       "Regulation occurs at a different level",
                       "The pathway is non-linear">>

\* the first n entries of a table, in table order
FirstEntries(table, n) == SubSeq(table, 1, n)

\* the entity-based strings in the order relationship, structure, concept
OrderedEntityStrings ==
    LET rel == IF entities.relationships # <<>>
               THEN <<entities.relationships[1][2] \o " is responsible for "
                          \o entities.relationships[1][1] \o "'s function">>
               ELSE <<>>
        str == IF entities.structures # <<>>
               THEN <<entities.structures[1] \o " is involved in a different process">>
               ELSE <<>>
        con == IF entities.concepts # <<>>
               THEN <<entities.concepts[1] \o " operates independently of other processes">>
               ELSE <<>>
    IN  rel \o str \o con

\* the generic table of a difficulty as the source lists it
C12_Table ==
    CASE difficulty = "easy"   -> <<"The process occurs in reverse",
                                    "No interaction takes place",
                                    "The structure is inactive">>
      [] difficulty = "medium" -> <<"The relationship is indirect",
                                    "Multiple steps are skipped",
                                    "The effect is temporary">>
      [] difficulty = "hard"   -> <<"The mechanism is substrate-independent",
                                    "Regulation occurs at a different level",
                                    "The pathway is non-linear">>

\* C12: the result of generatePlausibleDistractors is the relationship-based
\* string, then the structure-based string, then the concept-based string
\* (each only if its collection is non-empty), followed, while fewer than 3
\* exist, by the entries of the generic table of the requested difficulty in
\* table order starting with the first entry.
C12_FixedOrderThenTable ==
    pc = "done" =>
        distractors = OrderedEntityStrings
            \o FirstEntries(C12_Table, 3 - Len(OrderedEntityStrings))

(***************************************************************************)
(* Properties of generateContextualQuestion (SpecSynth).                   *)
(***************************************************************************)
\* the collection a question type draws from is empty
RequiredCollectionEmpty ==
    \/ qtype \in {"definition", "scenario"} /\ entities.concepts = <<>>
    \/ qtype = "sequencing" /\ entities.processes = <<>>
    \/ qtype = "comparison" /\ entities.relationships = <<>>

\* C3: when the collection the requested type requires is empty, the
\* synthesizer returns the EMPTY result: blank question and blank answer.
C3_EmptyWhenCollectionEmpty ==
    (pc = "done" /\ RequiredCollectionEmpty) =>
        (synth.question = "" /\ synth.correctAnswer = "")

\* the collection of the extracted entities that the types definition,
\* scenario and sequencing choose their phrase from
PhraseCollection ==
    IF qtype = "sequencing" THEN entities.processes ELSE entities.concepts

\* the question text that the three types build around a phrase
PhraseQuestion(phrase) ==
    CASE qtype = "definition" -> "What is " \o phrase \o "?"
      [] qtype = "sequencing" -> "What is the correct sequence in " \o phrase \o "?"
      [] qtype = "scenario"   -> "Which scenario best demonstrates " \o phrase \o "?"
      [] OTHER                -> ""

\* the first sentence of the selected paragraph that contains the phrase when
\* both are compared without regard to case, trimmed; blank when there is none
FirstSentenceContaining(phrase) ==
    LET paragraphs == SplitParagraphs(text)
        paragraph  == IF paragraphNumber <= Len(paragraphs)
                         /\ paragraphs[paragraphNumber] # ""
                      THEN paragraphs[paragraphNumber]
                      ELSE text
        sentences  == SplitSentences(paragraph)
        hits       == {k \in 1..Len(sentences) :
                          Includes(ToLowerCase(sentences[k]), ToLowerCase(phrase))}
    IN  IF hits = {} THEN ""
        ELSE Trim(sentences[CHOOSE h \in hits : \A g \in hits : h <= g])

\* C11: for the types definition, sequencing and scenario, with the phrase
\* chosen from the collection extracted from the same text, the correct
\* answer is the first sentence of the selected paragraph that contains the
\* phrase under case-insensitive comparison, trimmed, and is blank only when
\* no sentence contains the phrase.
C11_FirstContainingSentence ==
    (/\ pc = "done"
     /\ qtype \in {"definition", "sequencing", "scenario"}
     /\ PhraseCollection # <<>>) =>
        \E k \in 1..Len(PhraseCollection) :
            /\ synth.question = PhraseQuestion(PhraseCollection[k])
            /\ synth.correctAnswer = FirstSentenceContaining(PhraseCollection[k])

(***************************************************************************)
(* Properties of extractEntities (SpecExtract).                            *)
(***************************************************************************)
NoDuplicates(ss) == \A a, b \in 1..Len(ss) : a < b => ss[a] # ss[b]

NoSurroundingSpace(s) ==
    s = "" \/ (~IsSpace(CharAt(s, 1)) /\ ~IsSpace(CharAt(s, Len(s))))

CleanPhrases(ss) ==
    /\ NoDuplicates(ss)
    /\ \A k \in 1..Len(ss) : NoSurroundingSpace(ss[k]) /\ ss[k] # ""

\* C9: processes, structures and concepts returned by extractEntities hold
\* no duplicates, no phrase with leading or trailing whitespace and never
\* the empty string.
C9_PhrasesClean ==
    pc = "done" =>
        /\ CleanPhrases(entities.processes)
        /\ CleanPhrases(entities.structures)
        /\ CleanPhrases(entities.concepts)

\* C10: for each of the five comparison cues, a text that is one sentence
\* in which the cue is followed by the two terms gas and oil joined by
\* " and ", up to the end, a period or a comma, makes extractEntities
\* return the pair (gas, oil) as its relationships.
C10_Cues == {"compared to", "differs from", "versus", "vs.", "unlike"}

C10_EveryCuePairs ==
    pc = "done" =>
        \A cue \in C10_Cues : \A tail \in {"", ". ", ", "} :
            text = cue \o " gas and oil" \o tail =>
                entities.relationships = << <<"gas", "oil">> >>

(***************************************************************************)
(* Properties of shuffleArray (SpecShuffle).                               *)
(***************************************************************************)
Occurrences(a, e) == Cardinality({k \in 1..Len(a) : a[k] = e})

IsPermutationOf(a, b) ==
    /\ Len(a) = Len(b)
    /\ \A e \in ArrayElements : Occurrences(a, e) = Occurrences(b, e)

PermutationsOf(a) == {p \in [1..Len(a) -> ArrayElements] : IsPermutationOf(p, a)}

\* C8: at every point of the loop and at the return newArray has the
\* length and the multiset of elements of the input; the array returned is
\* one shuffleArray can return for the input; every permutation of the
\* input is among the arrays it can return; and no step changes the input.
C8_Permutation ==
    /\ pc # "call" => IsPermutationOf(newArray, array)
    /\ pc = "done" => newArray \in shuffleArray(array)
    /\ \A p \in PermutationsOf(array) : p \in shuffleArray(array)

C8_ShuffleContract == []C8_Permutation /\ [][array' = array]_vars

\* C8 witness: a call on four elements returned with the input reversed.
C8_Witness ==
    /\ pc = "done"
    /\ array = <<"a", "b", "c", "a">>
    /\ newArray = <<"a", "c", "b", "a">>

(***************************************************************************)
(* Properties of handleGenerate (SpecAppFair).                             *)
(***************************************************************************)
\* a step that starts a run: it sets isLoading and keeps the text and the
\* settings that are current at that moment
C13_Start ==
    (run = Undefined /\ run' # Undefined) =>
        /\ Trim(inputText) # ""
        /\ isLoading'
        /\ run'[1].inputText = inputText
        /\ run'[1].settings = settings

\* the lists generateMockQuestions can return, for every text, count and
\* difficulty a run can start with
C13_Results ==
    [t \in AppTexts |-> [c \in AppCounts |-> [d \in Difficulties |->
        generateMockQuestions(t, c, d, TRUE)]]]

\* a step that ends a run: a new list of questions is one that
\* generateMockQuestions can return for the text, the count and the
\* difficulty that were current when the run started; isLoading is reset
C13_End ==
    (run # Undefined /\ run' = Undefined) =>
        /\ ~isLoading'
        /\ \/ generatedQuestions' = generatedQuestions
           \/ generatedQuestions' \in
                  C13_Results[run[1].inputText][run[1].settings.questionCount]
                             [run[1].settings.difficulty]

\* while a run waits, edits change neither what it started with nor the
\* questions shown
C13_Wait ==
    (run # Undefined /\ run' # Undefined) =>
        (run' = run /\ generatedQuestions' = generatedQuestions /\ isLoading')

\* with blank input and no run waiting, no step starts a run or changes
\* isLoading or generatedQuestions
C13_Blank ==
    (run = Undefined /\ Trim(inputText) = "") =>
        /\ run' = Undefined
        /\ isLoading' = isLoading
        /\ generatedQuestions' = generatedQuestions

\* C13: a run started by handleGenerate with non-blank input computes its
\* questions from the text, the question count and the difficulty current
\* when it was started, whatever the user edits during the wait; every
\* started run eventually resets isLoading to false; and a call with blank
\* input starts no run and leaves isLoading and generatedQuestions unchanged.
C13_HandleGenerate ==
    /\ [][C13_Start /\ C13_Wait /\ C13_End /\ C13_Blank]_vars
    /\ (run # Undefined) ~> (run = Undefined /\ ~isLoading)

\* C13 witness: a run waits while the text is now blank and the question
\* count and the difficulty differ from those it started with, and the
\* questions of an earlier run are shown.
C13_Witness ==
    /\ run # Undefined
    /\ isLoading
    /\ Trim(inputText) = ""
    /\ run[1].settings.questionCount # settings.questionCount
    /\ run[1].settings.difficulty # settings.difficulty
    /\ generatedQuestions # <<>>

====
